---- MODULE Spec2Model ----
(***************************************************************************)
(* Model of the repo_read_pull_request_file_diffs tool handler of          *)
(* src/src/tools/repos.ts: pagination of the change list, the per-file     *)
(* content fetches, the line split, the diffLines region walk, the         *)
(* context windows (extractContext) and the assembly of the report.        *)
(***************************************************************************)
EXTENDS Integers, Sequences, FiniteSets, TLC

\* ------------------------------------------------------------------ bounds
MaxLines == 3
MaxFiles == 3
MaxSkip == 1
MaxTop == 2
MaxContext == 2
MaxLongLines == 52
MaxEditLines == 12

\* ------------------------------------------------------- program constants
\* VersionControlChangeType values of the Azure DevOps API
Add == 1
Edit == 2
Rename == 8
Delete == 16
\* the literals the handler compares change.changeType with
NotAnAddLiteral == 1
NotADeleteLiteral == 2
\* extractContext(..., 5, 1) at both call sites
ContextSize == 5
StartLineNumber == 1
\* const maxLines = 50
maxLines == 50

\* --------------------------------------------------------------- text
LF == "LF"
Chars == {"a", "b", "c"}

Max(x, y) == IF x >= y THEN x ELSE y
Min(x, y) == IF x <= y THEN x ELSE y

\* Array.prototype.slice(start, end) on a 0-indexed array held as a 1-indexed
\* sequence: negative arguments count from the end, both are clipped.
SliceBounds(len, start, end) ==
    LET s == IF start < 0 THEN Max(len + start, 0) ELSE Min(start, len)
        e == IF end < 0 THEN Max(len + end, 0) ELSE Min(end, len)
    IN  <<s, e>>

Slice(arr, start, end) ==
    LET b == SliceBounds(Len(arr), start, end)
    IN  IF b[1] >= b[2] THEN <<>> ELSE SubSeq(arr, b[1] + 1, b[2])

\* String.prototype.split("\n"): the pieces between line feeds, one more
\* piece than there are line feeds.
RECURSIVE SplitFrom(_, _, _, _)
SplitFrom(text, i, cur, acc) ==
    IF i > Len(text) THEN Append(acc, cur)
    ELSE IF text[i] = LF THEN SplitFrom(text, i + 1, <<>>, Append(acc, cur))
    ELSE SplitFrom(text, i + 1, Append(cur, text[i]), acc)

\* a final empty piece is dropped
SplitWithoutTrailingEmpty(text) ==
    LET pieces == SplitFrom(text, 1, <<>>, <<>>)
    IN  IF Len(pieces) > 1 /\ pieces[Len(pieces)] = <<>>
        THEN SubSeq(pieces, 1, Len(pieces) - 1)
        ELSE pieces

Split(text) == SplitFrom(text, 1, <<>>, <<>>)

\* diffLines' tokenizer: value.split(/(\n|\r\n)/) keeps the separators; the
\* final empty piece is dropped, every separator is merged into the line it
\* ends, and empty tokens are removed.
tokenize(text) ==
    LET pieces == Split(text)
        n == Len(pieces)
        kept == IF pieces[n] = <<>> THEN n - 1 ELSE n
        tok(i) == IF i < n THEN Append(pieces[i], LF) ELSE pieces[i]
        all == [i \in 1..kept |-> tok(i)]
    IN  SelectSeq(all, LAMBDA t : t # <<>>)

\* ------------------------------------------------------------ diffLines
\* The line diff of the "diff" package (Myers' greedy algorithm over the
\* line tokens).  A part is [count, added, removed]; a path is the furthest
\* point reached on a diagonal with the parts that lead there.
NoPath == [ok |-> FALSE, oldPos |-> -1, lastComponent |-> <<>>]

Part(count, added, removed) == [count |-> count, added |-> added, removed |-> removed]

addToPath(path, added, removed, oldPosInc) ==
    LET comps == path.lastComponent
        n == Len(comps)
    IN  IF n > 0 /\ comps[n].added = added /\ comps[n].removed = removed
        THEN [ok |-> TRUE, oldPos |-> path.oldPos + oldPosInc,
              lastComponent |-> [comps EXCEPT ![n] = Part(comps[n].count + 1, added, removed)]]
        ELSE [ok |-> TRUE, oldPos |-> path.oldPos + oldPosInc,
              lastComponent |-> Append(comps, Part(1, added, removed))]

RECURSIVE CommonRun(_, _, _, _)
CommonRun(newTokens, oldTokens, newPos, oldPos) ==
    IF newPos + 1 < Len(newTokens) /\ oldPos + 1 < Len(oldTokens)
       /\ oldTokens[oldPos + 2] = newTokens[newPos + 2]
    THEN 1 + CommonRun(newTokens, oldTokens, newPos + 1, oldPos + 1)
    ELSE 0

\* follows the diagonal while the tokens agree; yields the path and newPos
extractCommon(basePath, newTokens, oldTokens, diagonalPath) ==
    LET oldPos == basePath.oldPos
        newPos == oldPos - diagonalPath
        commonCount == CommonRun(newTokens, oldTokens, newPos, oldPos)
    IN  [path |-> [ok |-> TRUE, oldPos |-> oldPos + commonCount,
                   lastComponent |-> IF commonCount > 0
                                     THEN Append(basePath.lastComponent, Part(commonCount, FALSE, FALSE))
                                     ELSE basePath.lastComponent],
         newPos |-> newPos + commonCount]

\* one pass of the for loop of execEditLength, from diagonal d on
RECURSIVE execDiagonals(_, _, _, _, _)
execDiagonals(st, d, editLength, newTokens, oldTokens) ==
    IF d > Min(st.maxDiagonalToConsider, editLength) THEN st
    ELSE
      LET newLen == Len(newTokens)
          oldLen == Len(oldTokens)
          removePath == st.bestPath[d - 1]
          addPath == st.bestPath[d + 1]
          cleared == [st.bestPath EXCEPT ![d - 1] = NoPath]
          canAdd == addPath.ok /\ 0 <= addPath.oldPos - d /\ addPath.oldPos - d < newLen
          canRemove == removePath.ok /\ removePath.oldPos + 1 < oldLen
      IN  IF ~canAdd /\ ~canRemove
          THEN execDiagonals([st EXCEPT !.bestPath = [cleared EXCEPT ![d] = NoPath]],
                             d + 2, editLength, newTokens, oldTokens)
          ELSE
            LET basePath == IF ~canRemove \/ (canAdd /\ removePath.oldPos < addPath.oldPos)
                            THEN addToPath(addPath, TRUE, FALSE, 0)
                            ELSE addToPath(removePath, FALSE, TRUE, 1)
                ext == extractCommon(basePath, newTokens, oldTokens, d)
            IN  IF ext.path.oldPos + 1 >= oldLen /\ ext.newPos + 1 >= newLen
                THEN [st EXCEPT !.done = TRUE, !.components = ext.path.lastComponent]
                ELSE execDiagonals(
                       [st EXCEPT !.bestPath = [cleared EXCEPT ![d] = ext.path],
                                  !.maxDiagonalToConsider =
                                      IF ext.path.oldPos + 1 >= oldLen
                                      THEN Min(@, d - 1) ELSE @,
                                  !.minDiagonalToConsider =
                                      IF ext.newPos + 1 >= newLen
                                      THEN Max(@, d + 1) ELSE @],
                       d + 2, editLength, newTokens, oldTokens)

RECURSIVE execEditLength(_, _, _, _)
execEditLength(st, editLength, newTokens, oldTokens) ==
    LET r == execDiagonals(st, Max(st.minDiagonalToConsider, -editLength),
                           editLength, newTokens, oldTokens)
    IN  IF r.done \/ editLength > Len(newTokens) + Len(oldTokens)
        THEN r.components
        ELSE execEditLength(r, editLength + 1, newTokens, oldTokens)

diffTokens(oldTokens, newTokens) ==
    LET maxEditLength == Len(newTokens) + Len(oldTokens)
        diagonals == (-(maxEditLength + 2))..(maxEditLength + 2)
        seed == extractCommon([ok |-> TRUE, oldPos |-> -1, lastComponent |-> <<>>],
                              newTokens, oldTokens, 0)
    IN  IF seed.path.oldPos + 1 >= Len(oldTokens) /\ seed.newPos + 1 >= Len(newTokens)
        THEN seed.path.lastComponent
        ELSE execEditLength(
               [bestPath |-> [k \in diagonals |-> IF k = 0 THEN seed.path ELSE NoPath],
                minDiagonalToConsider |-> -(maxEditLength + 2),
                maxDiagonalToConsider |-> maxEditLength + 2,
                done |-> FALSE, components |-> <<>>],
               1, newTokens, oldTokens)

diffLines(oldStr, newStr) == diffTokens(tokenize(oldStr), tokenize(newStr))

\* ------------------------------------------------------------ inputs
RECURSIVE SeqsUpTo(_, _)
SeqsUpTo(S, n) ==
    IF n = 0 THEN {<<>>}
    ELSE LET shorter == SeqsUpTo(S, n - 1)
         IN  shorter \cup {Append(q, x) : q \in shorter, x \in S}

RECURSIVE JoinLines(_)
JoinLines(ls) ==
    IF Len(ls) = 0 THEN <<>>
    ELSE IF Len(ls) = 1 THEN ls[1]
    ELSE ls[1] \o <<LF>> \o JoinLines(Tail(ls))

\* texts of at most MaxLines lines of one character each, with or without
\* a final line feed
Texts ==
    LET lineSeqs == SeqsUpTo({<<c>> : c \in Chars}, MaxLines)
    IN  {JoinLines(ls) : ls \in lineSeqs}
        \cup {JoinLines(ls) \o <<LF>> : ls \in lineSeqs \ {<<>>}}

\* the content the repository holds in the pipeline runs: a two-line file
\* that gains a line and loses its final line feed
SampleBefore == <<"a", LF, "b", LF>>
SampleAfter == <<"a", LF, "c", LF, "b">>

\* a change entry: path 0 stands for a missing item path, sourceServerItem 0
\* for none
Change(path, changeType, sourceServerItem) ==
    [path |-> path, changeType |-> changeType, sourceServerItem |-> sourceServerItem]

\* the entries the server may enumerate at position i: an entry of any kind
\* at the first VariedPositions positions, an edited file further on
VariedPositions == 2

EntriesAt(i) ==
    IF i <= VariedPositions
    THEN {Change(i, Add, 0), Change(i, Edit, 0), Change(i, Delete, 0),
          Change(i, Rename, i + MaxFiles + 1), Change(0, Edit, 0)}
    ELSE {Change(i, Edit, 0)}

RECURSIVE ListsOfLen(_)
ListsOfLen(n) ==
    IF n = 0 THEN {<<>>}
    ELSE {Append(q, e) : q \in ListsOfLen(n - 1), e \in EntriesAt(n)}

ChangeLists == UNION {ListsOfLen(n) : n \in 0..MaxFiles}

\* ------------------------------------------------------------- state
VARIABLES
    skip, top, includeContent,          \* the tool arguments
    serverChanges, serverBefore, serverAfter,   \* what the collaborators hold
    serverIterations,
    pc, axis,                           \* position of the handler
    changes, paginatedChanges, idx,     \* the list, its page, the loop position
    beforeContent, afterContent,
    beforeLines, afterLines, changesArr,
    diffRegions, walked, beforeIdx, afterIdx,
    markdown, result,
    calls, failed,                      \* requests issued; page positions that hit the catch
    probe,                              \* extractContext applied on its own
    aborted,                            \* the caller's abort signal of this call
    me, other,                          \* the call that runs; the other call in flight
    voteCall                            \* a call of the vote tool

vars == <<skip, top, includeContent, serverChanges, serverBefore, serverAfter,
          serverIterations,
          pc, axis, changes, paginatedChanges, idx, beforeContent, afterContent,
          beforeLines, afterLines, changesArr, diffRegions, walked, beforeIdx,
          afterIdx, markdown, result, calls, failed, probe, aborted, me, other,
          voteCall>>

\* what no step of the handler writes: its arguments, the abort signal of
\* the request, which call it is, the locals of the other call, and a call
\* of the vote tool
argVars == <<skip, top, includeContent, aborted, me, other, voteCall>>
serverVars == <<serverChanges, serverBefore, serverAfter, serverIterations>>
diffVars == <<beforeLines, afterLines, changesArr, diffRegions, walked, beforeIdx, afterIdx>>
contentVars == <<beforeContent, afterContent>>
listVars == <<changes, paginatedChanges>>

\* ------------------------------------------------- extractContext
\* formatLinesWithNumbers: every line with its display number
formatLinesWithNumbers(lineSlice, startNum) ==
    [i \in 1..Len(lineSlice) |-> [num |-> startNum + (i - 1), text |-> lineSlice[i]]]

\* beforeStart without Math.max(0, ...)
extractContextUnclipped(lines, start, end, context, startLineNumber) ==
    LET beforeStart == start - context
        afterEnd == Min(Len(lines), end + context)
    IN  [before |-> formatLinesWithNumbers(Slice(lines, beforeStart, start),
                                           startLineNumber + beforeStart),
         changed |-> formatLinesWithNumbers(Slice(lines, start, end),
                                            startLineNumber + start),
         after |-> formatLinesWithNumbers(Slice(lines, end, afterEnd),
                                          startLineNumber + end)]

\* the changed lines numbered from the start of the before-context
extractContextChangedMisnumbered(lines, start, end, context, startLineNumber) ==
    LET beforeStart == Max(0, start - context)
        afterEnd == Min(Len(lines), end + context)
    IN  [before |-> formatLinesWithNumbers(Slice(lines, beforeStart, start),
                                           startLineNumber + beforeStart),
         changed |-> formatLinesWithNumbers(Slice(lines, start, end),
                                            startLineNumber + beforeStart),
         after |-> formatLinesWithNumbers(Slice(lines, end, afterEnd),
                                          startLineNumber + end)]

extractContext(lines, start, end, context, startLineNumber) ==
    LET beforeStart == Max(0, start - context)
        afterEnd == Min(Len(lines), end + context)
    IN  [before |-> formatLinesWithNumbers(Slice(lines, beforeStart, start),
                                           startLineNumber + beforeStart),
         changed |-> formatLinesWithNumbers(Slice(lines, start, end),
                                            startLineNumber + start),
         after |-> formatLinesWithNumbers(Slice(lines, end, afterEnd),
                                          startLineNumber + end)]

\* ------------------------------------------------- the region walk
Region(type, beforeStart, beforeEnd, afterStart, afterEnd) ==
    [type |-> type, beforeStart |-> beforeStart, beforeEnd |-> beforeEnd,
     afterStart |-> afterStart, afterEnd |-> afterEnd]

\* else if (!part.added) in place of else if (part.removed)
WalkStepUnchangedAsRemoved(w, part) ==
    IF part.added
    THEN LET r == Region("added", w.beforeIdx, w.beforeIdx, w.afterIdx, w.afterIdx + part.count)
         IN  [diffRegions |-> Append(w.diffRegions, r), walked |-> Append(w.walked, r),
              beforeIdx |-> w.beforeIdx, afterIdx |-> w.afterIdx + part.count]
    ELSE LET r == Region("removed", w.beforeIdx, w.beforeIdx + part.count, w.afterIdx, w.afterIdx)
         IN  [diffRegions |-> Append(w.diffRegions, r), walked |-> Append(w.walked, r),
              beforeIdx |-> w.beforeIdx + part.count, afterIdx |-> w.afterIdx]

\* the two branches of the walk test the wrong flags
WalkStepFlagsSwapped(w, part) ==
    IF part.removed
    THEN LET r == Region("added", w.beforeIdx, w.beforeIdx, w.afterIdx, w.afterIdx + part.count)
         IN  [diffRegions |-> Append(w.diffRegions, r), walked |-> Append(w.walked, r),
              beforeIdx |-> w.beforeIdx, afterIdx |-> w.afterIdx + part.count]
    ELSE IF part.added
    THEN LET r == Region("removed", w.beforeIdx, w.beforeIdx + part.count, w.afterIdx, w.afterIdx)
         IN  [diffRegions |-> Append(w.diffRegions, r), walked |-> Append(w.walked, r),
              beforeIdx |-> w.beforeIdx + part.count, afterIdx |-> w.afterIdx]
    ELSE [diffRegions |-> w.diffRegions,
          walked |-> Append(w.walked,
                            Region("unchanged", w.beforeIdx, w.beforeIdx + part.count,
                                   w.afterIdx, w.afterIdx + part.count)),
          beforeIdx |-> w.beforeIdx + part.count, afterIdx |-> w.afterIdx + part.count]

\* a removed part also advances the index into the after lines
WalkStepRemovedAdvancesAfter(w, part) ==
    IF part.added
    THEN LET r == Region("added", w.beforeIdx, w.beforeIdx, w.afterIdx, w.afterIdx + part.count)
         IN  [diffRegions |-> Append(w.diffRegions, r), walked |-> Append(w.walked, r),
              beforeIdx |-> w.beforeIdx, afterIdx |-> w.afterIdx + part.count]
    ELSE IF part.removed
    THEN LET r == Region("removed", w.beforeIdx, w.beforeIdx + part.count,
                         w.afterIdx, w.afterIdx + part.count)
         IN  [diffRegions |-> Append(w.diffRegions, r), walked |-> Append(w.walked, r),
              beforeIdx |-> w.beforeIdx + part.count, afterIdx |-> w.afterIdx + part.count]
    ELSE [diffRegions |-> w.diffRegions,
          walked |-> Append(w.walked,
                            Region("unchanged", w.beforeIdx, w.beforeIdx + part.count,
                                   w.afterIdx, w.afterIdx + part.count)),
          beforeIdx |-> w.beforeIdx + part.count, afterIdx |-> w.afterIdx + part.count]

\* the body of  for (const part of changesArr)
\* an added part spans the before axis as well
WalkStepAddedSpansBefore(w, part) ==
    IF part.added
    THEN LET r == Region("added", w.beforeIdx, w.beforeIdx + part.count,
                         w.afterIdx, w.afterIdx + part.count)
         IN  [diffRegions |-> Append(w.diffRegions, r), walked |-> Append(w.walked, r),
              beforeIdx |-> w.beforeIdx, afterIdx |-> w.afterIdx + part.count]
    ELSE IF part.removed
    THEN LET r == Region("removed", w.beforeIdx, w.beforeIdx + part.count, w.afterIdx, w.afterIdx)
         IN  [diffRegions |-> Append(w.diffRegions, r), walked |-> Append(w.walked, r),
              beforeIdx |-> w.beforeIdx + part.count, afterIdx |-> w.afterIdx]
    ELSE [diffRegions |-> w.diffRegions,
          walked |-> Append(w.walked,
                            Region("unchanged", w.beforeIdx, w.beforeIdx + part.count,
                                   w.afterIdx, w.afterIdx + part.count)),
          beforeIdx |-> w.beforeIdx + part.count, afterIdx |-> w.afterIdx + part.count]

WalkStep(w, part) ==
    IF part.added
    THEN LET r == Region("added", w.beforeIdx, w.beforeIdx, w.afterIdx, w.afterIdx + part.count)
         IN  [diffRegions |-> Append(w.diffRegions, r), walked |-> Append(w.walked, r),
              beforeIdx |-> w.beforeIdx, afterIdx |-> w.afterIdx + part.count]
    ELSE IF part.removed
    THEN LET r == Region("removed", w.beforeIdx, w.beforeIdx + part.count, w.afterIdx, w.afterIdx)
         IN  [diffRegions |-> Append(w.diffRegions, r), walked |-> Append(w.walked, r),
              beforeIdx |-> w.beforeIdx + part.count, afterIdx |-> w.afterIdx]
    ELSE [diffRegions |-> w.diffRegions,
          walked |-> Append(w.walked,
                            Region("unchanged", w.beforeIdx, w.beforeIdx + part.count,
                                   w.afterIdx, w.afterIdx + part.count)),
          beforeIdx |-> w.beforeIdx + part.count, afterIdx |-> w.afterIdx + part.count]

RECURSIVE WalkFrom(_, _, _)
WalkFrom(parts, i, w) ==
    IF i > Len(parts) THEN w ELSE WalkFrom(parts, i + 1, WalkStep(w, parts[i]))

\* diffRegions as the handler builds it; walked also keeps the unchanged
\* runs the loop steps over
Walk(parts) ==
    WalkFrom(parts, 1, [diffRegions |-> <<>>, walked |-> <<>>, beforeIdx |-> 0, afterIdx |-> 0])

\* ------------------------------------------------- the report
\* the report text, kept as the sequence of the pieces appended to it
Title == [tag |-> "title"]
Separator == [tag |-> "separator"]
ErrorNote == [tag |-> "error"]

\* the header without the renamed-from line
HeaderWithoutRename(change) ==
    <<[tag |-> "path", path |-> change.path],
      [tag |-> "changeType", changeType |-> change.changeType]>>

Header(change) ==
    <<[tag |-> "path", path |-> change.path],
      [tag |-> "changeType", changeType |-> change.changeType]>>
    \o (IF change.sourceServerItem # 0 /\ change.sourceServerItem # change.path
        THEN <<[tag |-> "renamedFrom", from |-> change.sourceServerItem]>>
        ELSE <<>>)

PrependSection(md, pieces) == pieces \o md

\* markdown += ...
AppendSection(md, pieces) == md \o pieces

Fallback(ax, lines) ==
    IF Len(lines) > 0
    THEN <<[tag |-> "fallback", axis |-> ax, count |-> Min(maxLines, Len(lines)),
            lines |-> formatLinesWithNumbers(Slice(lines, 0, maxLines), 1)]>>
    ELSE <<>>

\* the block is written only when the span itself holds a line
ContextBlockOnlyWithChanged(ax, ctx) ==
    IF ctx.changed # <<>>
    THEN <<[tag |-> "context", axis |-> ax, before |-> ctx.before,
            changed |-> ctx.changed, after |-> ctx.after]>>
    ELSE <<>>

ContextBlock(ax, ctx) ==
    IF ctx.before # <<>> \/ ctx.changed # <<>> \/ ctx.after # <<>>
    THEN <<[tag |-> "context", axis |-> ax, before |-> ctx.before,
            changed |-> ctx.changed, after |-> ctx.after]>>
    ELSE <<>>

\* the ranges of the heading count the lines from 0
RegionLabelFromZero(region) ==
    [beforeFrom |-> region.beforeStart, beforeTo |-> region.beforeEnd,
     afterFrom |-> region.afterStart, afterTo |-> region.afterEnd]

\* Lines ${beforeStart + 1}-${beforeEnd} -> ${afterStart + 1}-${afterEnd}
RegionLabel(region) ==
    [beforeFrom |-> region.beforeStart + 1, beforeTo |-> region.beforeEnd,
     afterFrom |-> region.afterStart + 1, afterTo |-> region.afterEnd]

\* ### Diff Region (${region.type}) - Lines ...
RegionHeading(region) ==
    [tag |-> "region", type |-> region.type, label |-> RegionLabel(region)]

\* the After block is cut at the region's span in the before lines
RegionBlockAfterAtBeforeSpan(region, bLines, aLines) ==
    <<RegionHeading(region)>>
    \o ContextBlock("before", extractContext(bLines, region.beforeStart, region.beforeEnd,
                                             ContextSize, StartLineNumber))
    \o ContextBlock("after", extractContext(aLines, region.beforeStart, region.beforeEnd,
                                            ContextSize, StartLineNumber))

RegionBlock(region, bLines, aLines) ==
    <<RegionHeading(region)>>
    \o ContextBlock("before", extractContext(bLines, region.beforeStart, region.beforeEnd,
                                             ContextSize, StartLineNumber))
    \o ContextBlock("after", extractContext(aLines, region.afterStart, region.afterEnd,
                                            ContextSize, StartLineNumber))

RECURSIVE RegionBlocks(_, _, _, _)
RegionBlocks(regions, i, bLines, aLines) ==
    IF i > Len(regions) THEN <<>>
    ELSE RegionBlock(regions[i], bLines, aLines) \o RegionBlocks(regions, i + 1, bLines, aLines)

DiffBody(regions, bLines, aLines) ==
    IF Len(regions) = 0
    THEN Fallback("before", bLines) \o Fallback("after", aLines)
    ELSE RegionBlocks(regions, 1, bLines, aLines)

\* ------------------------------------------------- the vote tool
\* the names under which configureRepoTools registers its tools
REPO_TOOLS ==
    {"repo_list_repos_by_project", "repo_list_pull_requests_by_repo",
     "repo_list_pull_requests_by_project", "repo_list_branches_by_repo",
     "repo_list_my_branches_by_repo", "repo_list_pull_request_threads",
     "repo_list_pull_request_thread_comments", "repo_get_repo_by_name_or_id",
     "repo_get_branch_by_name", "repo_get_pull_request_by_id",
     "repo_create_pull_request", "repo_update_pull_request",
     "repo_update_pull_request_reviewers", "repo_reply_to_comment",
     "repo_create_pull_request_thread", "repo_resolve_comment",
     "repo_search_commits", "repo_list_pull_requests_by_commits",
     "repo_submit_pull_request_vote", "repo_read_pull_request_file_diffs"}

submit_pull_request_vote == "repo_submit_pull_request_vote"

\* the name the caller of index.ts looks the tool up by
review_pull_request == "repo_review_pull_request"

\* An optional value is a sequence: <<>> when undefined, <<v>> when given.
UserIds == {"user1", "user2"}
Votes == {10, -10}
Reviewers == [id : UserIds, vote : {<<v>> : v \in Votes}]

\* the arguments a caller hands to the handler: those of the tool's schema,
\* or those of the caller of index.ts
VoteArgs ==
    [reviewer : {<<>>}, reviewerId : {<<>>}, repositoryId : {"repo1"},
     pullRequestId : {123}, vote : {<<v>> : v \in Votes},
     project : {<<>>, <<"proj1">>}]
ReviewArgs ==
    [reviewer : {<<r>> : r \in Reviewers}, reviewerId : {<<u>> : u \in UserIds},
     repositoryId : {"repo1"}, pullRequestId : {123}, vote : {<<>>},
     project : {<<>>, <<"proj1">>}]

\* JSON.stringify(value, null, 2) of a reviewer object: its members in
\* order, a member whose value is undefined left out
stringify(value) ==
    <<"{">> \o << <<"id", value.id>> >>
            \o (IF value.vote = <<>> THEN <<>> ELSE << <<"vote", value.vote[1]>> >>)
            \o <<"}">>

NoReviewer == [id |-> "", vote |-> <<>>]
NoVote == [pc |-> "absent", tool |-> "", args |-> <<>>, userId |-> "",
           apiCalls |-> <<>>, answer |-> NoReviewer, thrown |-> "", error |-> "",
           content |-> <<>>]

\* ------------------------------------------------- the handler
Cur == paginatedChanges[idx]

NoResult == [kind |-> "none", isError |-> FALSE, text |-> "none"]
IdleProbe == [applied |-> FALSE, lines |-> <<>>, start |-> 0, end |-> 0, context |-> 0,
              out |-> [before |-> <<>>, changed |-> <<>>, after |-> <<>>]]

WantsContentAlways(change) == change.path # 0

\* if (includeContent && change.item?.path)
WantsContent(change) == includeContent /\ change.path # 0

\* if (change.changeType !== 1)  and  if (change.changeType !== 2)
FetchesBefore(change) == change.changeType # NotAnAddLiteral
FetchesAfter(change) == change.changeType # NotADeleteLiteral

PaginateTopAsEnd(list, sk, tp) == Slice(list, sk, tp)

\* changes.slice(skip, skip + top)
Paginate(list, sk, tp) == Slice(list, sk, sk + tp)

\* a request to the Azure DevOps API as the log of requests keeps it: the
\* file's page position and path and the commit asked for (content fetches)
\* and what the request has come to so far
Call(api, pos, path, version, answer) ==
    [api |-> api, pos |-> pos, path |-> path, version |-> version, answer |-> answer,
     iteration |-> 0]

\* An iteration of the pull request; an optional member is a sequence, <<>>
\* when it is undefined.
Iteration(id, sourceCommitId, targetCommitId) ==
    [id |-> id, sourceRefCommit |-> sourceCommitId, targetRefCommit |-> targetCommitId]

\* what getPullRequestIterations may answer: nothing, or a list
NoIterations == [given |-> FALSE, list |-> <<>>]
Iterations(list) == [given |-> TRUE, list |-> list]

OneIteration == Iterations(<<Iteration(<<1>>, <<"s1">>, <<"t1">>)>>)

IterationLists ==
    {NoIterations, Iterations(<<>>), OneIteration,
     Iterations(<<Iteration(<<1>>, <<"s1">>, <<"t1">>), Iteration(<<2>>, <<>>, <<"t2">>)>>),
     Iterations(<<Iteration(<<1>>, <<"s1">>, <<"t1">>), Iteration(<<2>>, <<"s2">>, <<>>)>>),
     Iterations(<<Iteration(<<2>>, <<>>, <<>>), Iteration(<<1>>, <<"s1">>, <<"t1">>)>>),
     Iterations(<<Iteration(<<1>>, <<"s1">>, <<"t1">>), Iteration(<<>>, <<"s2">>, <<"t2">>)>>)}

\* iterations[0] in place of the last entry
firstIteration == serverIterations.list[1]

\* iterations[iterations.length - 1]
latestIteration == serverIterations.list[Len(serverIterations.list)]

\* iterationId || 0
iterationId == IF latestIteration.id = <<>> THEN 0 ELSE latestIteration.id[1]

\* the getPullRequestIterationChanges request
ChangesCall(answer) ==
    [Call("getPullRequestIterationChanges", 0, 0, "none", answer)
        EXCEPT !.iteration = iterationId]

\* the log once the request in flight has come to `answer`
Answered(answer) == [calls EXCEPT ![Len(calls)].answer = answer]

\* what a rejected getItemContent may tell: the file does not exist at the
\* commit, or the request failed on the way (network, authorization)
Rejections == {"notFound", "transient"}

\* there is no other call
NoCall == [pc |-> "absent"]

HandlerInit ==
    /\ aborted = FALSE /\ me = 1 /\ other = NoCall
    /\ pc = "start" /\ axis = "before"
    /\ changes = <<>> /\ paginatedChanges = <<>> /\ idx = 1
    /\ beforeContent = <<>> /\ afterContent = <<>>
    /\ beforeLines = <<>> /\ afterLines = <<>> /\ changesArr = <<>>
    /\ diffRegions = <<>> /\ walked = <<>> /\ beforeIdx = 0 /\ afterIdx = 0
    /\ markdown = <<>> /\ result = NoResult
    /\ calls = <<>> /\ failed = {}

Init ==
    /\ skip \in -1..MaxSkip /\ top \in -1..MaxTop /\ includeContent \in BOOLEAN
    /\ serverChanges \in ChangeLists
    /\ serverBefore = SampleBefore /\ serverAfter = SampleAfter
    /\ serverIterations \in IterationLists
    /\ HandlerInit /\ voteCall = NoVote
    /\ probe = IdleProbe

\* connectionProvider() and connection.getGitApi()
Connect ==
    /\ pc = "start"
    /\ pc' = "iterations"
    /\ UNCHANGED <<argVars, serverVars, axis, listVars, idx, contentVars, diffVars,
                   markdown, result, calls, failed, probe>>

\* one of the awaited calls outside the try block throws: the handler rejects
Rejects ==
    /\ pc \in {"start", "iterations", "changes"}
    /\ pc' = "rejected"
    /\ result' = [kind |-> "thrown", isError |-> TRUE, text |-> "none"]
    /\ calls' = IF pc = "iterations"
                THEN Append(calls, Call("getPullRequestIterations", 0, 0, "none", "rejected"))
                ELSE IF pc = "changes"
                THEN Append(calls, ChangesCall("rejected"))
                ELSE calls
    /\ UNCHANGED <<argVars, serverVars, axis, listVars, idx, contentVars, diffVars,
                   markdown, failed, probe>>

\* getPullRequestIterations and the two guards on its answer
GetIterations ==
    /\ pc = "iterations"
    /\ calls' = Append(calls, Call("getPullRequestIterations", 0, 0, "none", "answered"))
    /\ IF ~serverIterations.given \/ Len(serverIterations.list) = 0
       THEN /\ pc' = "done"
            /\ result' = [kind |-> "returned", isError |-> TRUE, text |-> "No iterations found"]
       ELSE IF latestIteration.sourceRefCommit = <<>> \/ latestIteration.targetRefCommit = <<>>
       THEN /\ pc' = "done"
            /\ result' = [kind |-> "returned", isError |-> TRUE, text |-> "No commit IDs"]
       ELSE /\ pc' = "changes"
            /\ UNCHANGED result
    /\ UNCHANGED <<argVars, serverVars, axis, listVars, idx, contentVars, diffVars,
                   markdown, failed, probe>>

\* getPullRequestIterationChanges, the pagination and the report title
GetChanges ==
    /\ pc = "changes"
    /\ calls' = Append(calls, ChangesCall("answered"))
    /\ changes' = serverChanges
    /\ paginatedChanges' = Paginate(serverChanges, skip, top)
    /\ markdown' = <<Title>>
    /\ idx' = 1
    /\ pc' = "loop"
    /\ UNCHANGED <<argVars, serverVars, axis, contentVars, diffVars, result, failed, probe>>

\* the head of one loop iteration: the header lines and the content guard
BeginFile ==
    /\ pc = "loop" /\ idx <= Len(paginatedChanges)
    /\ markdown' = AppendSection(markdown, Header(Cur))
    /\ beforeContent' = <<>> /\ afterContent' = <<>>
    /\ beforeLines' = <<>> /\ afterLines' = <<>> /\ changesArr' = <<>>
    /\ diffRegions' = <<>> /\ walked' = <<>> /\ beforeIdx' = 0 /\ afterIdx' = 0
    /\ axis' = "before"
    /\ pc' = IF WantsContent(Cur) THEN "fetch" ELSE "endFile"
    /\ UNCHANGED <<argVars, serverVars, listVars, idx, result, calls, failed, probe>>

\* where the handler goes once the fetch on the current axis is over
AfterAxis ==
    IF axis = "before" THEN axis' = "after" /\ pc' = "fetch"
    ELSE axis' = axis /\ pc' = "diff"

\* the changeType guard and the getItemContent call of the current axis
Fetch ==
    /\ pc = "fetch"
    /\ IF (axis = "before" /\ FetchesBefore(Cur)) \/ (axis = "after" /\ FetchesAfter(Cur))
       THEN /\ calls' = Append(calls, Call("getItemContent", idx, Cur.path,
                                            IF axis = "before" THEN "target" ELSE "source",
                                            "pending"))
            /\ pc' = "item"
            /\ UNCHANGED axis
       ELSE /\ AfterAxis
            /\ UNCHANGED calls
    /\ UNCHANGED <<argVars, serverVars, listVars, idx, contentVars, diffVars,
                   markdown, result, failed, probe>>

\* no catch: the failure leaves the handler
CatchMissing ==
    /\ pc' = "rejected"
    /\ result' = [kind |-> "thrown", isError |-> TRUE, text |-> "none"]
    /\ failed' = failed \cup {idx}
    /\ UNCHANGED <<argVars, serverVars, axis, listVars, idx, contentVars, diffVars,
                   markdown, probe>>

\* the catch notes the failure and the loop body goes on with the next fetch
CatchGoesOn ==
    /\ markdown' = Append(markdown, ErrorNote)
    /\ failed' = failed \cup {idx}
    /\ AfterAxis
    /\ UNCHANGED <<argVars, serverVars, listVars, idx, contentVars, diffVars,
                   result, probe>>

\* catch (error): the inline note, then continue
Catch ==
    /\ markdown' = Append(markdown, ErrorNote)
    /\ failed' = failed \cup {idx}
    /\ idx' = idx + 1
    /\ pc' = "loop"
    /\ UNCHANGED <<argVars, serverVars, axis, listVars, contentVars, diffVars,
                   result, probe>>

\* getItemContent throws
ItemThrows ==
    /\ pc = "item"
    /\ \E why \in Rejections : calls' = Answered(why)
    /\ Catch

\* getItemContent yields nothing: the content stays empty
ItemMissing ==
    /\ pc = "item"
    /\ calls' = Answered("none")
    /\ AfterAxis
    /\ UNCHANGED <<argVars, serverVars, listVars, idx, contentVars, diffVars,
                   markdown, result, failed, probe>>

\* getItemContent yields a stream, which streamToString starts reading
ItemStream ==
    /\ pc = "item"
    /\ calls' = Answered("stream")
    /\ pc' = "stream"
    /\ UNCHANGED <<argVars, serverVars, axis, listVars, idx, contentVars, diffVars,
                   markdown, result, failed, probe>>

\* the stream ends: streamToString resolves with the whole content
StreamEnd ==
    /\ pc = "stream"
    /\ IF axis = "before"
       THEN beforeContent' = serverBefore /\ UNCHANGED afterContent
       ELSE afterContent' = serverAfter /\ UNCHANGED beforeContent
    /\ calls' = Answered("content")
    /\ AfterAxis
    /\ UNCHANGED <<argVars, serverVars, listVars, idx, diffVars,
                   markdown, result, failed, probe>>

\* the stream errors: streamToString rejects
StreamError ==
    /\ pc = "stream"
    /\ calls' = Answered("streamError")
    /\ Catch

\* the line split and the walk over the parts of diffLines
ComputeDiff ==
    /\ pc = "diff"
    /\ beforeLines' = Split(beforeContent)
    /\ afterLines' = Split(afterContent)
    /\ changesArr' = diffLines(beforeContent, afterContent)
    /\ LET w == Walk(diffLines(beforeContent, afterContent))
       IN  /\ diffRegions' = w.diffRegions
           /\ walked' = w.walked
           /\ beforeIdx' = w.beforeIdx
           /\ afterIdx' = w.afterIdx
    /\ pc' = "render"
    /\ UNCHANGED <<argVars, serverVars, axis, listVars, idx, contentVars,
                   markdown, result, calls, failed, probe>>

\* the fallback block or the region blocks
Render ==
    /\ pc = "render"
    /\ markdown' = AppendSection(markdown, DiffBody(diffRegions, beforeLines, afterLines))
    /\ pc' = "endFile"
    /\ UNCHANGED <<argVars, serverVars, axis, listVars, idx, contentVars, diffVars,
                   result, calls, failed, probe>>

\* markdown += "\n---\n" at the end of the iteration
EndFile ==
    /\ pc = "endFile"
    /\ markdown' = Append(markdown, Separator)
    /\ idx' = idx + 1
    /\ pc' = "loop"
    /\ UNCHANGED <<argVars, serverVars, axis, listVars, contentVars, diffVars,
                   result, calls, failed, probe>>

\* return { content: [{ type: "text", text: markdown }] }
Return ==
    /\ pc = "loop" /\ idx > Len(paginatedChanges)
    /\ result' = [kind |-> "returned", isError |-> FALSE, text |-> "markdown"]
    /\ pc' = "done"
    /\ UNCHANGED <<argVars, serverVars, axis, listVars, idx, contentVars, diffVars,
                   markdown, calls, failed, probe>>

Next ==
    \/ Connect \/ Rejects \/ GetIterations \/ GetChanges
    \/ BeginFile \/ Fetch \/ ItemThrows \/ ItemMissing \/ ItemStream
    \/ StreamEnd \/ StreamError \/ ComputeDiff \/ Render \/ EndFile \/ Return

Spec == Init /\ [][Next]_vars

\* ------------------------------------------------- the diff of one file
\* One renamed file whose two versions range over all the texts: both
\* fetches are issued and the split, the walk and the rendering run on
\* every before/after pair.
InitDiff ==
    /\ skip = 0 /\ top = 1 /\ includeContent = TRUE
    /\ serverChanges = <<Change(1, Rename, 2)>>
    /\ serverBefore \in Texts /\ serverAfter \in Texts
    /\ HandlerInit /\ voteCall = NoVote /\ serverIterations = OneIteration
    /\ probe = IdleProbe

NextDiff ==
    \/ Connect \/ GetIterations \/ GetChanges \/ BeginFile \/ Fetch \/ ItemStream
    \/ StreamEnd \/ ComputeDiff \/ Render \/ EndFile \/ Return

SpecDiff == InitDiff /\ [][NextDiff]_vars

\* ------------------------------------------------- a long unchanged file
\* One renamed file whose two versions are the same text of up to
\* MaxLongLines lines (a first line, empty or not, and blank lines after
\* it): the walk finds no added or removed part and the no-diff branch
\* renders, also for files longer than maxLines.
LongTexts ==
    {head \o [i \in 1..n |-> LF] : head \in {<<>>, <<"a">>}, n \in 0..(MaxLongLines - 1)}

InitFallback ==
    /\ skip = 0 /\ top = 1 /\ includeContent = TRUE
    /\ serverChanges = <<Change(1, Rename, 2)>>
    /\ serverBefore \in LongTexts /\ serverAfter = serverBefore
    /\ HandlerInit /\ voteCall = NoVote /\ serverIterations = OneIteration
    /\ probe = IdleProbe

SpecFallback == InitFallback /\ [][NextDiff]_vars

\* ------------------------------------------------- one edit in a file
\* One renamed file of up to MaxEditLines lines, with or without a final
\* line feed, in which one or two lines are inserted at some position, or
\* (the same pairs read backwards) deleted: the documents are long enough
\* for the context of 5 lines to end inside them on both sides.
PatternLine(i) == IF i % 3 = 1 THEN <<"a">> ELSE IF i % 3 = 2 THEN <<"b">> ELSE <<"c">>

PatternDoc(n) == [i \in 1..n |-> PatternLine(i)]

InsertAt(doc, p, new) == SubSeq(doc, 1, p) \o new \o SubSeq(doc, p + 1, Len(doc))

TextOf(ls, terminated) ==
    JoinLines(ls) \o (IF terminated /\ ls # <<>> THEN <<LF>> ELSE <<>>)

NewLines == {<<<<c>>>> : c \in Chars} \cup {<<<<"c">>, <<"a">>>>}

InsertionsInto(doc) ==
    {<<TextOf(doc, t), TextOf(InsertAt(doc, p, new), t)>> :
        p \in 0..Len(doc), new \in NewLines, t \in BOOLEAN}

InsertionPairs == UNION {InsertionsInto(PatternDoc(n)) : n \in 0..MaxEditLines}

EditPairs == InsertionPairs \cup {<<pair[2], pair[1]>> : pair \in InsertionPairs}

InitEdit ==
    /\ skip = 0 /\ top = 1 /\ includeContent = TRUE
    /\ serverChanges = <<Change(1, Rename, 2)>>
    /\ \E pair \in EditPairs : serverBefore = pair[1] /\ serverAfter = pair[2]
    /\ HandlerInit /\ voteCall = NoVote /\ serverIterations = OneIteration
    /\ probe = IdleProbe

SpecEdit == InitEdit /\ [][NextDiff]_vars

\* ------------------------------------------------- a call that is cancelled
\* The client cancels the request: the abort signal that the server hands
\* to the tool callback beside its arguments is raised.  The callback
\* declares the arguments alone.
Abort ==
    /\ ~aborted /\ pc \notin {"done", "rejected"}
    /\ aborted' = TRUE
    /\ UNCHANGED <<skip, top, includeContent, me, other, voteCall, serverVars, pc, axis, listVars, idx,
                   contentVars, diffVars, markdown, result, calls, failed, probe>>

InitCancel ==
    /\ skip = 0 /\ top \in 0..MaxTop /\ includeContent = TRUE
    /\ serverChanges \in ChangeLists
    /\ serverBefore = SampleBefore /\ serverAfter = SampleAfter
    /\ HandlerInit /\ voteCall = NoVote /\ serverIterations = OneIteration
    /\ probe = IdleProbe

NextCancel == Next \/ Abort

SpecCancel == InitCancel /\ [][NextCancel]_vars

\* ------------------------------------------------- two calls in flight
\* Two calls of the tool, with different arguments, against the same
\* repository.  Every variable of the handler is declared inside the
\* callback, so each call has its own; the event loop runs one call at a
\* time and may pass to the other one whenever the running call waits at
\* an await (or has ended).
Locals ==
    [skip |-> skip, top |-> top, includeContent |-> includeContent, aborted |-> aborted,
     me |-> me, pc |-> pc, axis |-> axis, changes |-> changes,
     paginatedChanges |-> paginatedChanges, idx |-> idx,
     beforeContent |-> beforeContent, afterContent |-> afterContent,
     beforeLines |-> beforeLines, afterLines |-> afterLines, changesArr |-> changesArr,
     diffRegions |-> diffRegions, walked |-> walked, beforeIdx |-> beforeIdx,
     afterIdx |-> afterIdx, markdown |-> markdown, result |-> result,
     calls |-> calls, failed |-> failed]

FreshCall(id, sk, tp, inc) ==
    [skip |-> sk, top |-> tp, includeContent |-> inc, aborted |-> FALSE,
     me |-> id, pc |-> "start", axis |-> "before", changes |-> <<>>,
     paginatedChanges |-> <<>>, idx |-> 1,
     beforeContent |-> <<>>, afterContent |-> <<>>,
     beforeLines |-> <<>>, afterLines |-> <<>>, changesArr |-> <<>>,
     diffRegions |-> <<>>, walked |-> <<>>, beforeIdx |-> 0,
     afterIdx |-> 0, markdown |-> <<>>, result |-> NoResult,
     calls |-> <<>>, failed |-> {}]

\* the running call waits for a promise to settle, or is over
AtAwait == pc \in {"start", "iterations", "changes", "item", "stream", "done", "rejected"}

Ended(call) == call.pc \in {"done", "rejected"}

\* the report text is one variable of the module, written by both calls
SwitchSharingMarkdown ==
    /\ other # NoCall /\ ~Ended(other) /\ AtAwait
    /\ other' = Locals
    /\ skip' = other.skip /\ top' = other.top /\ includeContent' = other.includeContent
    /\ aborted' = other.aborted /\ me' = other.me /\ pc' = other.pc /\ axis' = other.axis
    /\ changes' = other.changes /\ paginatedChanges' = other.paginatedChanges
    /\ idx' = other.idx
    /\ beforeContent' = other.beforeContent /\ afterContent' = other.afterContent
    /\ beforeLines' = other.beforeLines /\ afterLines' = other.afterLines
    /\ changesArr' = other.changesArr /\ diffRegions' = other.diffRegions
    /\ walked' = other.walked /\ beforeIdx' = other.beforeIdx /\ afterIdx' = other.afterIdx
    /\ markdown' = markdown /\ result' = other.result
    /\ calls' = other.calls /\ failed' = other.failed
    /\ UNCHANGED <<serverVars, probe, voteCall>>

\* the event loop passes from the running call to the other one
Switch ==
    /\ other # NoCall /\ ~Ended(other) /\ AtAwait
    /\ other' = Locals
    /\ skip' = other.skip /\ top' = other.top /\ includeContent' = other.includeContent
    /\ aborted' = other.aborted /\ me' = other.me /\ pc' = other.pc /\ axis' = other.axis
    /\ changes' = other.changes /\ paginatedChanges' = other.paginatedChanges
    /\ idx' = other.idx
    /\ beforeContent' = other.beforeContent /\ afterContent' = other.afterContent
    /\ beforeLines' = other.beforeLines /\ afterLines' = other.afterLines
    /\ changesArr' = other.changesArr /\ diffRegions' = other.diffRegions
    /\ walked' = other.walked /\ beforeIdx' = other.beforeIdx /\ afterIdx' = other.afterIdx
    /\ markdown' = other.markdown /\ result' = other.result
    /\ calls' = other.calls /\ failed' = other.failed
    /\ UNCHANGED <<serverVars, probe, voteCall>>

\* the change list both calls read: a renamed file and an added one
SharedList == <<Change(1, Rename, MaxFiles + 2), Change(2, Add, 0)>>

InitConcurrent ==
    /\ skip = 0 /\ top = 1 /\ includeContent \in BOOLEAN
    /\ aborted = FALSE /\ me = 1
    /\ \E inc \in BOOLEAN : other = FreshCall(2, 1, 1, inc)
    /\ serverChanges = SharedList
    /\ serverBefore = SampleBefore /\ serverAfter = SampleAfter
    /\ pc = "start" /\ axis = "before"
    /\ changes = <<>> /\ paginatedChanges = <<>> /\ idx = 1
    /\ beforeContent = <<>> /\ afterContent = <<>>
    /\ beforeLines = <<>> /\ afterLines = <<>> /\ changesArr = <<>>
    /\ diffRegions = <<>> /\ walked = <<>> /\ beforeIdx = 0 /\ afterIdx = 0
    /\ markdown = <<>> /\ result = NoResult
    /\ calls = <<>> /\ failed = {}
    /\ probe = IdleProbe
    /\ voteCall = NoVote /\ serverIterations = OneIteration

NextConcurrent == Next \/ Switch

SpecConcurrent == InitConcurrent /\ [][NextConcurrent]_vars

\* ------------------------------------------------- extractContext alone
\* extractContext applied to the lines of any text with any non-negative
\* start and end (also past the end, also end before start) and any
\* context size up to MaxContext.
InitWindow ==
    /\ skip = 0 /\ top = 0 /\ includeContent = FALSE
    /\ serverChanges = <<>> /\ serverBefore = <<>> /\ serverAfter = <<>>
    /\ HandlerInit /\ voteCall = NoVote /\ serverIterations = OneIteration
    /\ \E t \in Texts, st \in 0..(MaxLines + 2), en \in 0..(MaxLines + 2), c \in 0..MaxContext :
          probe = [IdleProbe EXCEPT !.lines = Split(t), !.start = st, !.end = en, !.context = c]

ApplyExtractContext ==
    /\ ~probe.applied
    /\ probe' = [probe EXCEPT !.applied = TRUE,
                              !.out = extractContext(probe.lines, probe.start, probe.end,
                                                     probe.context, StartLineNumber)]
    /\ UNCHANGED <<argVars, serverVars, pc, axis, listVars, idx, contentVars, diffVars,
                   markdown, result, calls, failed>>

NextWindow == ApplyExtractContext

SpecWindow == InitWindow /\ [][NextWindow]_vars

\* ------------------------------------------------- a call of the vote tool
diffToolVars == <<skip, top, includeContent, aborted, me, other, serverVars, pc, axis,
                  listVars, idx, contentVars, diffVars, markdown, result, calls,
                  failed, probe>>

\* the caller finds the handler among the registered tools by its name
FindTool ==
    /\ voteCall.pc = "find"
    /\ voteCall' = [voteCall EXCEPT !.pc = IF voteCall.tool \in REPO_TOOLS
                                           THEN "connect" ELSE "undefined"]
    /\ UNCHANGED diffToolVars

\* connectionProvider() and connection.getGitApi()
VoteConnect ==
    /\ voteCall.pc = "connect"
    /\ voteCall' = [voteCall EXCEPT !.pc = "user"]
    /\ UNCHANGED diffToolVars

\* getCurrentUserDetails: the authenticated user, or a rejection
GetCurrentUser ==
    /\ voteCall.pc = "user"
    /\ \/ \E u \in UserIds : voteCall' = [voteCall EXCEPT !.pc = "submit", !.userId = u]
       \/ voteCall' = [voteCall EXCEPT !.pc = "rejected", !.error = "Error fetching user details"]
    /\ UNCHANGED diffToolVars

\* gitApi.createPullRequestReviewer(reviewer, repositoryId, pullRequestId, userId, project)
createPullRequestReviewer ==
    /\ voteCall.pc = "submit"
    /\ voteCall' = [voteCall EXCEPT
          !.pc = "await",
          !.apiCalls = Append(@, [reviewer |-> [id |-> voteCall.userId,
                                                vote |-> voteCall.args.vote],
                                  repositoryId |-> voteCall.args.repositoryId,
                                  pullRequestId |-> voteCall.args.pullRequestId,
                                  reviewerId |-> <<voteCall.userId>>,
                                  project |-> voteCall.args.project])]
    /\ UNCHANGED diffToolVars

\* the API call resolves: the handler returns the answer as its text content
VoteReturn ==
    /\ voteCall.pc = "await"
    /\ \E r \in Reviewers :
          voteCall' = [voteCall EXCEPT
             !.pc = "returned", !.answer = r,
             !.content = <<[type |-> "text", text |-> stringify(r)]>>]
    /\ UNCHANGED diffToolVars

ApiErrors == {"API error", "TF401181"}

\* the API call fails with an error
ApiRejects ==
    /\ voteCall.pc = "await"
    /\ \E e \in ApiErrors : voteCall' = [voteCall EXCEPT !.pc = "thrown", !.thrown = e]
    /\ UNCHANGED diffToolVars

VoteRejectSwallowed ==
    /\ voteCall.pc = "thrown"
    /\ voteCall' = [voteCall EXCEPT
          !.pc = "returned",
          !.content = <<[type |-> "text", text |-> <<voteCall.thrown>>]>>]
    /\ UNCHANGED diffToolVars

\* nothing catches the error of the await: the handler rejects with it
VoteReject ==
    /\ voteCall.pc = "thrown"
    /\ voteCall' = [voteCall EXCEPT !.pc = "rejected", !.error = voteCall.thrown]
    /\ UNCHANGED diffToolVars

InitVote ==
    /\ HandlerInit
    /\ skip = 0 /\ top = 0 /\ includeContent = FALSE
    /\ serverChanges = <<>> /\ serverBefore = <<>> /\ serverAfter = <<>>
    /\ serverIterations = OneIteration
    /\ probe = IdleProbe
    /\ \E name \in {submit_pull_request_vote, review_pull_request},
          args \in VoteArgs \cup ReviewArgs :
          voteCall = [NoVote EXCEPT !.pc = "find", !.tool = name, !.args = args]

NextVote ==
    \/ FindTool \/ VoteConnect \/ GetCurrentUser \/ createPullRequestReviewer
    \/ VoteReturn \/ ApiRejects \/ VoteReject

SpecVote == InitVote /\ [][NextVote]_vars

\* ================================================= properties
\* ------------------------------------------------- reading the report
Indices(q, Test(_)) == {i \in 1..Len(q) : Test(q[i])}

IsPath(e) == e.tag = "path"
IsChangeType(e) == e.tag = "changeType"
IsContentCall(c) == c.api = "getItemContent"

\* the paths named by the file headers of the report, in report order
HeaderPaths(md) ==
    LET hs == SelectSeq(md, IsPath)
    IN  [i \in 1..Len(hs) |-> hs[i].path]

HeaderChangeTypes(md) ==
    LET hs == SelectSeq(md, IsChangeType)
    IN  [i \in 1..Len(hs) |-> hs[i].changeType]

\* the k-th file section: from its path line up to the next path line
RECURSIVE NthIndex(_, _, _)
NthIndex(md, k, from) ==
    IF from > Len(md) THEN Len(md) + 1
    ELSE IF md[from].tag = "path"
         THEN (IF k = 1 THEN from ELSE NthIndex(md, k - 1, from + 1))
         ELSE NthIndex(md, k, from + 1)

SectionOf(md, k) ==
    LET first == NthIndex(md, k, 1)
        next == NthIndex(md, k + 1, 1)
    IN  IF first > Len(md) THEN <<>> ELSE SubSeq(md, first, next - 1)

ContentCalls == SelectSeq(calls, IsContentCall)

Called(path, version) ==
    \E i \in 1..Len(calls) :
        calls[i].api = "getItemContent" /\ calls[i].path = path /\ calls[i].version = version

ReportReturned == pc = "done" /\ result.kind = "returned" /\ ~result.isError

\* ------------------------------------------------- C1
\* the positions of the change list that skip and top retain, counted from 1
RetainedPositions == {j \in 1..Len(changes) : skip < j /\ j <= skip + top}

RetainedCount == Cardinality(RetainedPositions)

\* C1: with skip >= 0 and top >= 0, the returned report holds a file
\* section for exactly the entries of the change list at the positions
\* [skip, skip+top), clipped to the list, and every content fetch ever issued
\* is for one of these entries.
C1_PaginationExact ==
    (skip >= 0 /\ top >= 0) =>
        /\ \A i \in 1..Len(calls) :
              calls[i].api = "getItemContent" =>
                  \E j \in RetainedPositions : changes[j].path = calls[i].path
        /\ ReportReturned =>
              /\ Len(HeaderPaths(markdown)) = RetainedCount
              /\ \A i \in 1..RetainedCount :
                    /\ HeaderPaths(markdown)[i] = changes[skip + i].path
                    /\ HeaderChangeTypes(markdown)[i] = changes[skip + i].changeType

C1_Witness ==
    /\ ReportReturned /\ skip = 1 /\ top = 1 /\ Len(changes) = 3
    /\ Len(ContentCalls) > 0 /\ HeaderPaths(markdown) = <<2>>

\* ------------------------------------------------- C2
IsDiffOutput(e) == e.tag \in {"region", "context", "fallback"}

\* C2: once a content fetch of a retained file has failed (the call threw
\* or its stream errored) the handler does not reject: that file's section
\* is its header followed by the inline error note and holds no diff block,
\* and the report the handler returns holds the header of every retained
\* file, each file that asks for content having had a fetch issued.
C2_FetchFailureIsLocal ==
    failed # {} =>
        /\ pc # "rejected" /\ result.kind # "thrown"
        /\ \A k \in failed :
              /\ k <= Len(paginatedChanges)
              /\ SectionOf(markdown, k) = Header(paginatedChanges[k]) \o <<ErrorNote>>
        /\ pc = "done" =>
              /\ ReportReturned
              /\ Len(HeaderPaths(markdown)) = Len(paginatedChanges)
              /\ \A j \in 1..Len(paginatedChanges) :
                    WantsContent(paginatedChanges[j]) =>
                        \E i \in 1..Len(calls) :
                            calls[i].api = "getItemContent" /\ calls[i].pos = j

C2_Witness ==
    /\ ReportReturned /\ failed = {1} /\ Len(paginatedChanges) = 2
    /\ Called(paginatedChanges[2].path, "target")
    /\ \E i \in 1..Len(markdown) : markdown[i].tag = "region"

\* ------------------------------------------------- C3
\* C3: in a returned report made with includeContent, every retained file
\* that has a path and whose fetches did not fail had its before-content
\* fetched (at the target commit) exactly when it is not an Add, and its
\* after-content fetched (at the source commit) exactly when it is not a
\* Delete.
C3_FetchesFollowChangeType ==
    (ReportReturned /\ includeContent) =>
        \A j \in 1..Len(paginatedChanges) :
            (paginatedChanges[j].path # 0 /\ j \notin failed) =>
                /\ Called(paginatedChanges[j].path, "target")
                       <=> paginatedChanges[j].changeType # Add
                /\ Called(paginatedChanges[j].path, "source")
                       <=> paginatedChanges[j].changeType # Delete

\* ------------------------------------------------- C4
\* C4: at every moment the file headers of the report are those of the
\* first files of the page, in the order of the page, whichever fetches
\* succeeded, yielded nothing or failed; the returned report holds them all.
C4_SectionsInPageOrder ==
    /\ Len(HeaderPaths(markdown)) <= Len(paginatedChanges)
    /\ \A i \in 1..Len(HeaderPaths(markdown)) :
          /\ HeaderPaths(markdown)[i] = paginatedChanges[i].path
          /\ SubSeq(SectionOf(markdown, i), 1, Len(Header(paginatedChanges[i])))
                = Header(paginatedChanges[i])
    /\ ReportReturned => Len(HeaderPaths(markdown)) = Len(paginatedChanges)
    /\ markdown # <<>> => markdown[1] = Title

C4_Witness ==
    /\ ReportReturned /\ Len(paginatedChanges) = 2 /\ failed = {1}
    /\ paginatedChanges[1].path # paginatedChanges[2].path
    /\ \E i \in 1..Len(markdown) : markdown[i].tag = "region"

\* ------------------------------------------------- C5
\* C5: without includeContent no content fetch is ever issued and the
\* report holds nothing but the title, the header lines (path, change type,
\* renamed-from) and the separators of the retained files.
C5_HeadersOnly ==
    ~includeContent =>
        /\ ContentCalls = <<>>
        /\ \A i \in 1..Len(markdown) :
              markdown[i].tag \in {"title", "path", "changeType", "renamedFrom", "separator"}
        /\ ReportReturned =>
              \A k \in 1..Len(paginatedChanges) :
                  SectionOf(markdown, k) = Header(paginatedChanges[k]) \o <<Separator>>

C5_Witness ==
    /\ ReportReturned /\ ~includeContent /\ Len(paginatedChanges) = 2
    /\ \E i \in 1..Len(markdown) : markdown[i].tag = "renamedFrom"

\* ------------------------------------------------- C6
\* the regions of the walk follow each other without gap or overlap on
\* both axes, from 0 on
Contiguous(regions) ==
    /\ Len(regions) > 0 => regions[1].beforeStart = 0 /\ regions[1].afterStart = 0
    /\ \A i \in 1..Len(regions) :
          /\ regions[i].beforeStart <= regions[i].beforeEnd
          /\ regions[i].afterStart <= regions[i].afterEnd
    /\ \A i \in 1..(Len(regions) - 1) :
          /\ regions[i + 1].beforeStart = regions[i].beforeEnd
          /\ regions[i + 1].afterStart = regions[i].afterEnd

Walked == pc = "render"

\* C6: once a file's texts are split and walked, the regions of the walk
\* (unchanged runs included) are contiguous from 0 on both axes and end at
\* the number of lines of the split before-sequence and of the split
\* after-sequence.
C6_RegionsPartitionSplitLines ==
    Walked =>
        /\ Contiguous(walked)
        /\ beforeIdx = Len(beforeLines)
        /\ afterIdx = Len(afterLines)

\* ------------------------------------------------- C7
\* C7 as stated, over the list the handler builds: no two consecutive
\* entries of diffRegions have the same kind.
C7_ConsecutiveKindsDiffer ==
    Walked =>
        \A i \in 1..(Len(diffRegions) - 1) : diffRegions[i].type # diffRegions[i + 1].type

\* C7, amended: no two regions of the same kind are adjacent.  Counting the
\* unchanged runs the walk steps over, no two consecutive regions have the
\* same kind; in diffRegions, which leaves the unchanged runs out, two
\* consecutive regions of one kind are always apart on both axes (an
\* unchanged run lies between them).
C7_NoAdjacentSameKind ==
    Walked =>
        /\ \A i \in 1..(Len(walked) - 1) : walked[i].type # walked[i + 1].type
        /\ \A i \in 1..(Len(diffRegions) - 1) :
              diffRegions[i].type = diffRegions[i + 1].type =>
                  /\ diffRegions[i].beforeEnd < diffRegions[i + 1].beforeStart
                  /\ diffRegions[i].afterEnd < diffRegions[i + 1].afterStart

C7_Witness ==
    /\ Walked /\ Len(diffRegions) >= 2
    /\ diffRegions[1].type = "removed" /\ diffRegions[2].type = "removed"

\* ------------------------------------------------- C8
\* C8: for a non-empty text classified against itself the walk is exactly
\* one unchanged region that spans all the lines of the split sequence on
\* both axes, and diffRegions is empty.
C8_SelfDiffOneUnchanged ==
    (Walked /\ beforeContent = afterContent /\ beforeContent # <<>>) =>
        /\ walked = <<Region("unchanged", 0, Len(beforeLines), 0, Len(afterLines))>>
        /\ diffRegions = <<>>

\* ------------------------------------------------- C9
Touching(r1, r2) == r1.beforeEnd = r2.beforeStart /\ r1.afterEnd = r2.afterStart

\* C9: whenever a removed and an added region are neighbours with no
\* unchanged run between them, the removed region is the first of the two.
C9_RemovedBeforeAdded ==
    Walked =>
        /\ \A i \in 1..(Len(walked) - 1) :
              {walked[i].type, walked[i + 1].type} = {"removed", "added"} =>
                  walked[i].type = "removed"
        /\ \A i \in 1..(Len(diffRegions) - 1) :
              (Touching(diffRegions[i], diffRegions[i + 1])
               /\ diffRegions[i].type # diffRegions[i + 1].type) =>
                  diffRegions[i].type = "removed" /\ diffRegions[i + 1].type = "added"

C9_Witness ==
    /\ Walked /\ Len(diffRegions) >= 2
    /\ \E i \in 1..(Len(diffRegions) - 1) :
          /\ Touching(diffRegions[i], diffRegions[i + 1])
          /\ diffRegions[i].type = "removed" /\ diffRegions[i + 1].type = "added"
          /\ diffRegions[i].beforeStart > 0

\* ------------------------------------------------- C10
InDocument(lines, numbered) ==
    \A i \in 1..Len(numbered) :
        /\ 1 <= numbered[i].num /\ numbered[i].num <= Len(lines)
        /\ numbered[i].text = lines[numbered[i].num]

NumberedRange(lines, lo, hi) ==
    [i \in 1..(hi - lo) |-> [num |-> lo + i, text |-> lines[lo + i]]]

\* C11: for 0 <= start <= end <= length and any context size, the windower
\* returns as before the lines at [max(0, start-context), start), as changed
\* the lines at [start, end) and as after the lines at
\* [end, min(length, end+context)), each with the number index+1.
C11_WindowExact ==
    (probe.applied /\ probe.start <= probe.end /\ probe.end <= Len(probe.lines)) =>
        /\ probe.out.before
              = NumberedRange(probe.lines, Max(0, probe.start - probe.context), probe.start)
        /\ probe.out.changed = NumberedRange(probe.lines, probe.start, probe.end)
        /\ probe.out.after
              = NumberedRange(probe.lines, probe.end,
                              Min(Len(probe.lines), probe.end + probe.context))

C11_Witness ==
    /\ probe.applied /\ probe.start < probe.end /\ probe.end < Len(probe.lines)
    /\ probe.context = 1 /\ probe.start = 1
    /\ Len(probe.out.before) = 1 /\ Len(probe.out.changed) = 1 /\ Len(probe.out.after) = 1
    /\ probe.out.changed[1].num = 2

\* ------------------------------------------------- C12
Rendered == pc = "endFile" /\ WantsContent(Cur)

IsFallback(e) == e.tag = "fallback"

\* the numbered lines the no-diff block of one axis shows
FallbackShown(ax) ==
    LET blocks == SelectSeq(SectionOf(markdown, idx),
                            LAMBDA e : e.tag = "fallback" /\ e.axis = ax)
    IN  IF blocks = <<>> THEN {} ELSE {blocks[1].lines[i] : i \in 1..Len(blocks[1].lines)}

FirstAndLast(lines) ==
    LET n == Min(maxLines, Len(lines))
    IN  {[num |-> j, text |-> lines[j]] :
            j \in (1..n) \cup ((Len(lines) - n + 1)..Len(lines))}

\* C12: when the walk of a file yields no added or removed region, the
\* rendered section shows, for the before lines and for the after lines,
\* the first N and the last N lines of the whole sequence, N being the
\* number of lines capped at maxLines.
C12_FallbackFirstAndLast ==
    (Rendered /\ diffRegions = <<>>) =>
        /\ FirstAndLast(beforeLines) \subseteq FallbackShown("before")
        /\ FirstAndLast(afterLines) \subseteq FallbackShown("after")

\* ------------------------------------------------- C13
\* the position in the report of the k-th region heading
NthRegionIndex(md, k) ==
    CHOOSE i \in 1..Len(md) :
        /\ md[i].tag = "region"
        /\ Cardinality({j \in 1..i : md[j].tag = "region"}) = k

\* the context blocks of one axis rendered under the k-th region heading
ContextOf(md, k, ax) ==
    LET pos == NthRegionIndex(md, k)
        at == {j \in {pos + 1, pos + 2} :
                  /\ j <= Len(md) /\ md[j].tag = "context" /\ md[j].axis = ax
                  /\ (j = pos + 2 => md[pos + 1].tag = "context")}
    IN  {md[j] : j \in at}

\* the block an empty span at index `at` of `lines` is due: no changed
\* line, up to ContextSize lines on each side of the insertion point
EmptySpanBlock(ax, lines, at) ==
    [tag |-> "context", axis |-> ax,
     before |-> NumberedRange(lines, Max(0, at - ContextSize), at),
     changed |-> <<>>,
     after |-> NumberedRange(lines, at, Min(Len(lines), at + ContextSize))]

\* C13: for every region whose span on one axis is empty, the block of
\* that axis is rendered under the region's heading with no changed line
\* and with the lines before and after the insertion point, up to
\* ContextSize on each side and clipped to the document, and it shows at
\* least one line.
C13_EmptySpanKeepsContext ==
    Rendered =>
        \A k \in 1..Len(diffRegions) :
            LET r == diffRegions[k]
                b == EmptySpanBlock("before", beforeLines, r.beforeStart)
                a == EmptySpanBlock("after", afterLines, r.afterStart)
            IN  /\ r.beforeStart = r.beforeEnd =>
                      /\ ContextOf(markdown, k, "before") = {b}
                      /\ b.before # <<>> \/ b.after # <<>>
                /\ r.afterStart = r.afterEnd =>
                      /\ ContextOf(markdown, k, "after") = {a}
                      /\ a.before # <<>> \/ a.after # <<>>

\* an insertion deep inside a long file: the before axis has an empty span
\* and ContextSize lines on both sides, fewer than the document holds
C13_Witness ==
    /\ Rendered /\ Len(diffRegions) = 1 /\ diffRegions[1].type = "added"
    /\ diffRegions[1].beforeStart = diffRegions[1].beforeEnd
    /\ diffRegions[1].beforeStart > ContextSize
    /\ diffRegions[1].beforeStart + ContextSize < Len(beforeLines)
    /\ \E blk \in ContextOf(markdown, 1, "before") :
          blk.changed = <<>> /\ Len(blk.before) = ContextSize /\ Len(blk.after) = ContextSize

\* ------------------------------------------------- C14
IsErrorNote(e) == e.tag = "error"

\* C14: the result that carries the report also carries a flag, and the
\* flag signals a partial failure exactly when the report holds at least
\* one inline error note.
C14_FlagIffErrorNote ==
    (pc = "done" /\ result.kind = "returned" /\ result.text = "markdown") =>
        (result.isError <=> Indices(markdown, IsErrorNote) # {})

\* ------------------------------------------------- C15
\* C15: a pull request without iterations and an empty change list both
\* end in a returned result that is not flagged as an error and whose text
\* says so: the no-iterations message, or a report that states that there
\* is no difference (something more than the bare title).
C15_EmptyIsSuccess ==
    /\ (pc = "done" /\ result.text = "No iterations found") =>
          result.kind = "returned" /\ ~result.isError
    /\ (pc = "done" /\ result.text = "markdown" /\ changes = <<>>) =>
          /\ result.kind = "returned" /\ ~result.isError
          /\ markdown # <<Title>>

\* ------------------------------------------------- C16
ReportsNoFile(c) == c.api = "getItemContent" /\ c.answer \in {"none", "notFound"}

FailsOnTheWay(c) == c.api = "getItemContent" /\ c.answer \in {"transient", "streamError"}

\* C16: a content fetch answered with "no such file at this commit" leaves
\* the axis empty and brings no error note: unless another fetch of the
\* file failed on the way, the file's section holds no note and, once the
\* file is done, its rendered diff; a file's section holds the error note
\* only if one of its fetches failed on the way.
C16_MissingFileIsEmptyContent ==
    /\ \A i \in 1..Len(calls) :
          (ReportsNoFile(calls[i])
           /\ ~\E j \in 1..Len(calls) : calls[j].pos = calls[i].pos /\ FailsOnTheWay(calls[j])) =>
              /\ calls[i].pos \notin failed
              /\ Indices(SectionOf(markdown, calls[i].pos), IsErrorNote) = {}
              /\ idx > calls[i].pos =>
                    Indices(SectionOf(markdown, calls[i].pos), IsDiffOutput) # {}
    /\ \A k \in 1..Len(HeaderPaths(markdown)) :
          Indices(SectionOf(markdown, k), IsErrorNote) # {} =>
              \E j \in 1..Len(calls) : calls[j].pos = k /\ FailsOnTheWay(calls[j])

\* ------------------------------------------------- C17
TruncationNote == [tag |-> "truncated"]

\* C17: once the abort signal of the call is raised, no step issues a new
\* content fetch, and the step that ends the report returns the report made
\* so far with a truncation note as its last piece.
C17_AbortStopsFetches ==
    [][aborted =>
          /\ Len(ContentCalls') = Len(ContentCalls)
          /\ (pc = "loop" /\ pc' = "done") =>
                /\ result'.kind = "returned" /\ result'.text = "markdown"
                /\ markdown'[Len(markdown')] = TruncationNote]_vars

\* ------------------------------------------------- C18
\* whether the call got the content of the file at page position k at the
\* given commit, and whether a fetch for that file failed
GotContent(call, k, version) ==
    \E i \in 1..Len(call.calls) :
        /\ call.calls[i].api = "getItemContent" /\ call.calls[i].pos = k
        /\ call.calls[i].version = version /\ call.calls[i].answer = "content"

FetchFailed(call, k) ==
    \E i \in 1..Len(call.calls) :
        /\ call.calls[i].api = "getItemContent" /\ call.calls[i].pos = k
        /\ call.calls[i].answer \in {"notFound", "transient", "streamError"}

\* the section a call running alone writes for the file at page position k,
\* given its arguments and the answers its own requests got
SectionAlone(call, k) ==
    LET change == Paginate(serverChanges, call.skip, call.top)[k]
        b == IF GotContent(call, k, "target") THEN serverBefore ELSE <<>>
        a == IF GotContent(call, k, "source") THEN serverAfter ELSE <<>>
    IN  Header(change)
        \o (IF ~(call.includeContent /\ change.path # 0) THEN <<Separator>>
            ELSE IF FetchFailed(call, k) THEN <<ErrorNote>>
            ELSE DiffBody(Walk(diffLines(b, a)).diffRegions, Split(b), Split(a))
                 \o <<Separator>>)

RECURSIVE SectionsAlone(_, _)
SectionsAlone(call, k) ==
    IF k > Len(Paginate(serverChanges, call.skip, call.top)) THEN <<>>
    ELSE SectionAlone(call, k) \o SectionsAlone(call, k + 1)

ReportAlone(call) == <<Title>> \o SectionsAlone(call, 1)

ReturnedReport(call) ==
    call.pc = "done" /\ call.result.kind = "returned" /\ ~call.result.isError

\* C18: with two calls in flight, passing from one to the other at any
\* await, the report each call returns is the report it returns when it
\* runs alone with the same arguments and the same answers to its own
\* requests: nothing of the other call is in it.
C18_ConcurrentCallsIndependent ==
    /\ ReturnedReport(Locals) => markdown = ReportAlone(Locals)
    /\ (other # NoCall /\ ReturnedReport(other)) => other.markdown = ReportAlone(other)

\* call 1 returns a report with a diff region while call 2, started after
\* it, waits in the middle of a content fetch of its own
C18_Witness ==
    /\ me = 1 /\ ReturnedReport(Locals) /\ other # NoCall
    /\ other.me = 2 /\ other.pc = "stream" /\ Len(other.markdown) > 1
    /\ \E i \in 1..Len(markdown) : markdown[i].tag = "region"

\* ------------------------------------------------- C19
LineFeeds(text) == Cardinality({i \in 1..Len(text) : text[i] = LF})

EndsWithLF(text) == text # <<>> /\ text[Len(text)] = LF

\* the after-content is the before-content, which ends with a line feed,
\* followed by further lines, the last of them ended by a line feed too
PureAppend ==
    /\ EndsWithLF(beforeContent) /\ EndsWithLF(afterContent)
    /\ Len(afterContent) > Len(beforeContent)
    /\ SubSeq(afterContent, 1, Len(beforeContent)) = beforeContent

\* C19: when k lines are appended to a document of n lines that ends with
\* a line feed, the walk is the unchanged region [0,n)->[0,n) followed by
\* the added region [n,n)->[n,n+k), and the After block of that region
\* shows the new lines, numbered n+1 to n+k, as its changed part and the up
\* to ContextSize lines before them as its before-context.
C19_AppendAtEnd ==
    (Rendered /\ PureAppend) =>
        LET n == LineFeeds(beforeContent)
            k == LineFeeds(afterContent) - n
        IN  /\ walked = <<Region("unchanged", 0, n, 0, n), Region("added", n, n, n, n + k)>>
            /\ diffRegions = <<Region("added", n, n, n, n + k)>>
            /\ \E blk \in ContextOf(markdown, 1, "after") :
                  /\ blk.changed = NumberedRange(afterLines, n, n + k)
                  /\ blk.before = NumberedRange(afterLines, Max(0, n - ContextSize), n)
                  /\ \A j \in 1..k : blk.changed[j].num = n + j

\* two lines appended to a document of more than ContextSize lines
C19_Witness ==
    /\ Rendered /\ PureAppend
    /\ LineFeeds(beforeContent) > ContextSize
    /\ LineFeeds(afterContent) = LineFeeds(beforeContent) + 2
    /\ \E blk \in ContextOf(markdown, 1, "after") :
          Len(blk.changed) = 2 /\ Len(blk.before) = ContextSize

\* ------------------------------------------------- C20
\* the after-content is the before-content without its line at index i
\* (from 0), which is neither the first nor the last line
InteriorLineDeleted(i) ==
    LET old == tokenize(beforeContent)
        new == tokenize(afterContent)
    IN  /\ 0 < i /\ i < Len(old) - 1
        /\ new = SubSeq(old, 1, i) \o SubSeq(old, i + 2, Len(old))

DeletionRegions(i) ==
    LET n == Len(tokenize(beforeContent))
    IN  <<Region("unchanged", 0, i, 0, i), Region("removed", i, i + 1, i, i),
          Region("unchanged", i + 1, n, i, n - 1)>>

\* C20 as stated: whichever interior line i of the before-content is
\* deleted, the walk is unchanged [0,i)->[0,i), removed [i,i+1)->[i,i),
\* unchanged [i+1,n)->[i,n-1) and nothing else.
C20_InteriorDeletion ==
    Walked =>
        \A i \in 1..Len(beforeContent) :
            InteriorLineDeleted(i) => walked = DeletionRegions(i)

\* C20, amended: the same, for a deleted line that differs from the line
\* after it (each taken with its line ending).
C20_InteriorDeletionOfDistinctLine ==
    Walked =>
        \A i \in 1..Len(beforeContent) :
            (InteriorLineDeleted(i)
             /\ tokenize(beforeContent)[i + 1] # tokenize(beforeContent)[i + 2]) =>
                walked = DeletionRegions(i)

C20_Witness ==
    /\ Walked
    /\ \E i \in 2..Len(beforeContent) :
          /\ InteriorLineDeleted(i)
          /\ tokenize(beforeContent)[i + 1] # tokenize(beforeContent)[i + 2]
          /\ walked = DeletionRegions(i)
          /\ Len(tokenize(beforeContent)) > i + 2

\* ------------------------------------------------- C21
\* a no-diff block of one axis: it starts at line 1 and shows lines of the
\* document under their own numbers
IsFallbackOf(e, ax, lines) ==
    /\ e.tag = "fallback" /\ e.axis = ax
    /\ e.lines # <<>> /\ e.lines[1].num = 1
    /\ InDocument(lines, e.lines)

IsRegionHeading(e) == e.tag = "region"

IsChange(r) == r.type # "unchanged"

\* C22: for a file with differences the rendered section holds one Diff
\* Region heading for each added or removed region of the walk and none for
\* an unchanged run, in the order of the walk, each with the kind of its
\* region and the ranges beforeStart+1 to beforeEnd and afterStart+1 to
\* afterEnd; from one heading to the next the first numbers of both ranges
\* do not decrease.
C22_OneBlockPerRegion ==
    (Rendered /\ diffRegions # <<>>) =>
        LET blocks == SelectSeq(SectionOf(markdown, idx), IsRegionHeading)
            regions == SelectSeq(walked, IsChange)
        IN  /\ Len(blocks) = Len(regions)
            /\ \A i \in 1..Len(blocks) :
                  /\ blocks[i].type = regions[i].type
                  /\ blocks[i].type \in {"added", "removed"}
                  /\ blocks[i].label.beforeFrom = regions[i].beforeStart + 1
                  /\ blocks[i].label.beforeTo = regions[i].beforeEnd
                  /\ blocks[i].label.afterFrom = regions[i].afterStart + 1
                  /\ blocks[i].label.afterTo = regions[i].afterEnd
            /\ \A i \in 1..(Len(blocks) - 1) :
                  /\ blocks[i].label.beforeFrom <= blocks[i + 1].label.beforeFrom
                  /\ blocks[i].label.afterFrom <= blocks[i + 1].label.afterFrom

\* three regions, the last one after an unchanged run
C22_Witness ==
    /\ Rendered /\ Len(diffRegions) = 3 /\ Len(walked) = 4
    /\ walked[3].type = "unchanged"
    /\ Cardinality(Indices(SectionOf(markdown, idx), IsRegionHeading)) = 3

\* ------------------------------------------------- C23
\* the lines are the text cut at its line feeds: none holds a line feed
\* and, put together again with a line feed between them, they are the text
IsSplitOf(lines, text) ==
    /\ Len(lines) = LineFeeds(text) + 1
    /\ \A i \in 1..Len(lines) : LineFeeds(lines[i]) = 0
    /\ JoinLines(lines) = text

\* C23: the before and the after lines of a file are its contents cut at
\* every line feed and nowhere else: one line more than there are line
\* feeds, so one empty line for the empty text and an empty last line for a
\* text that ends with a line feed.
C23_SplitOnLineFeeds ==
    Walked =>
        /\ IsSplitOf(beforeLines, beforeContent)
        /\ IsSplitOf(afterLines, afterContent)
        /\ beforeContent = <<>> => beforeLines = << <<>> >>
        /\ EndsWithLF(afterContent) => afterLines[Len(afterLines)] = <<>>

C23_Witness ==
    /\ Walked /\ beforeContent = <<>> /\ beforeLines = << <<>> >>
    /\ EndsWithLF(afterContent) /\ Len(afterLines) = MaxLines + 1
    /\ afterLines[Len(afterLines)] = <<>>

\* C24: the tool named repo_review_pull_request is registered, so a caller
\* that looks it up finds a handler; and the handler, invoked with
\* {reviewer, repositoryId, pullRequestId, reviewerId, project}, has called
\* createPullRequestReviewer once, with exactly these five arguments, when
\* it returns, and returns the JSON text of the API's answer as its single
\* text content.
C24_ReviewToolForwardsArguments ==
    /\ voteCall.pc = "undefined" => voteCall.tool # review_pull_request
    /\ (voteCall.pc = "returned" /\ voteCall.args.reviewer # <<>>) =>
          /\ voteCall.apiCalls =
                <<[reviewer |-> voteCall.args.reviewer[1],
                   repositoryId |-> voteCall.args.repositoryId,
                   pullRequestId |-> voteCall.args.pullRequestId,
                   reviewerId |-> voteCall.args.reviewerId,
                   project |-> voteCall.args.project]>>
          /\ voteCall.content = <<[type |-> "text", text |-> stringify(voteCall.answer)]>>

\* C25: once createPullRequestReviewer has failed, the vote handler never
\* returns a normal result: when it settles it has rejected, with the very
\* error of the API call, and holds no content.
C25_ApiFailurePropagates ==
    (voteCall.thrown # "" /\ voteCall.pc # "thrown") =>
        /\ voteCall.pc = "rejected"
        /\ voteCall.error = voteCall.thrown
        /\ voteCall.content = <<>>

C25_Witness ==
    /\ voteCall.tool = submit_pull_request_vote
    /\ voteCall.pc = "rejected" /\ voteCall.error = "API error"
    /\ Len(voteCall.apiCalls) = 1

\* ------------------------------------------------- C26
\* the changed lines rendered for one axis under the k-th region heading
ChangedShown(md, k, ax) ==
    LET blocks == ContextOf(md, k, ax)
    IN  IF blocks = {} THEN 0 ELSE Len((CHOOSE b \in blocks : TRUE).changed)

WithinLines(from, to, lines) == 0 <= from /\ from <= to /\ to <= Len(lines)

\* C26: every region of diffRegions lies within the split lines on both
\* axes, 0 <= beforeStart <= beforeEnd <= Len(beforeLines) and
\* 0 <= afterStart <= afterEnd <= Len(afterLines), and the changed lines
\* rendered for it on each axis are exactly end - start many.
C26_RegionsWithinSplitLines ==
    /\ (Walked \/ Rendered) =>
          \A k \in 1..Len(diffRegions) :
              /\ WithinLines(diffRegions[k].beforeStart, diffRegions[k].beforeEnd, beforeLines)
              /\ WithinLines(diffRegions[k].afterStart, diffRegions[k].afterEnd, afterLines)
    /\ Rendered =>
          \A k \in 1..Len(diffRegions) :
              /\ ChangedShown(SectionOf(markdown, idx), k, "before")
                    = diffRegions[k].beforeEnd - diffRegions[k].beforeStart
              /\ ChangedShown(SectionOf(markdown, idx), k, "after")
                    = diffRegions[k].afterEnd - diffRegions[k].afterStart

C26_Witness ==
    /\ Rendered /\ Len(diffRegions) = 2
    /\ diffRegions[1].type = "removed" /\ diffRegions[1].beforeStart = 0
    /\ diffRegions[1].beforeEnd = MaxLines /\ Len(beforeLines) = MaxLines
    /\ diffRegions[2].afterEnd = Len(afterLines)
    /\ ChangedShown(SectionOf(markdown, idx), 1, "before") = MaxLines

\* ------------------------------------------------- C27
\* a content fetch that is issued and neither answered nor read to the end
InFlight(c) == c.api = "getItemContent" /\ c.answer \in {"pending", "stream"}

Completed(c) == c.answer \in {"content", "none"}

\* C27: at most one content fetch is in flight, and it is the one issued
\* last; of two content fetches the earlier one is over when the later one
\* is issued, is for the same file or an earlier one, and, when both are for
\* the same file, is the before-fetch, has completed without failure, and
\* the later one is the after-fetch.
C27_OneFetchInFlight ==
    /\ Cardinality(Indices(calls, InFlight)) <= 1
    /\ \A i \in Indices(calls, InFlight) : i = Len(calls)
    /\ \A i, j \in Indices(calls, IsContentCall) :
          i < j =>
             /\ ~InFlight(calls[i])
             /\ calls[i].pos <= calls[j].pos
             /\ calls[i].pos = calls[j].pos =>
                   /\ calls[i].version = "target" /\ calls[j].version = "source"
                   /\ Completed(calls[i])

C27_Witness ==
    /\ Len(ContentCalls) = 3
    /\ ContentCalls[1].pos = 1 /\ ContentCalls[1].version = "target"
    /\ ContentCalls[1].answer = "streamError"
    /\ ContentCalls[2].pos = 2 /\ ContentCalls[2].version = "target"
    /\ ContentCalls[2].answer = "content"
    /\ ContentCalls[3].pos = 2 /\ ContentCalls[3].version = "source"
    /\ ContentCalls[3].answer = "stream"

\* ------------------------------------------------- C28
IsChangesCall(c) == c.api = "getPullRequestIterationChanges"

\* the iteration list is missing or empty, or its last entry lacks a
\* source or a target commit ID
NoLatestCommits ==
    \/ ~serverIterations.given
    \/ serverIterations.list = <<>>
    \/ LET last == serverIterations.list[Len(serverIterations.list)]
       IN  last.sourceRefCommit = <<>> \/ last.targetRefCommit = <<>>

\* the iteration a change-list request for the last entry of the list names:
\* the entry's ID, 0 when the entry has none
LastIterationId ==
    LET last == serverIterations.list[Len(serverIterations.list)]
    IN  IF last.id = <<>> THEN 0 ELSE last.id[1]

\* C28: when the iteration list is missing or empty, or its last entry
\* lacks a source or a target commit ID, the handler issues no change-list
\* request and no content fetch and returns (with the error flag); otherwise
\* there is never more than one change-list request, it names the last
\* entry of the list, it precedes every content fetch, and a call that has
\* returned has issued it exactly once.
C28_ChangeListOnceForLastIteration ==
    /\ NoLatestCommits =>
          /\ Indices(calls, IsChangesCall) = {}
          /\ Indices(calls, IsContentCall) = {}
          /\ pc \in {"start", "iterations", "done", "rejected"}
          /\ pc = "done" => result.kind = "returned" /\ result.isError
    /\ ~NoLatestCommits =>
          /\ Cardinality(Indices(calls, IsChangesCall)) <= 1
          /\ \A i \in Indices(calls, IsChangesCall) :
                /\ calls[i].iteration = LastIterationId
                /\ \A j \in Indices(calls, IsContentCall) : i < j
          /\ Indices(calls, IsContentCall) # {} => Indices(calls, IsChangesCall) # {}
          /\ pc = "done" => Cardinality(Indices(calls, IsChangesCall)) = 1

C28_Witness ==
    /\ pc = "done" /\ Len(serverIterations.list) = 2
    /\ serverIterations.list[1].sourceRefCommit = <<>>
    /\ serverIterations.list[1].id = <<2>>
    /\ Len(SelectSeq(calls, IsChangesCall)) = 1
    /\ SelectSeq(calls, IsChangesCall)[1].iteration = 1
    /\ Len(ContentCalls) = 2

\* ------------------------------------------------- C29
IsSeparator(e) == e.tag = "separator"

\* C29: in a returned report every file section ends with the separator:
\* there are as many separators as file headers, also when a section holds
\* the error note of a failed fetch.
C29_EverySectionClosed ==
    ReportReturned =>
        /\ Len(SelectSeq(markdown, IsSeparator)) = Len(HeaderPaths(markdown))
        /\ \A k \in 1..Len(HeaderPaths(markdown)) :
              LET section == SectionOf(markdown, k)
              IN  section[Len(section)] = Separator

\* ------------------------------------------------- C30
\* C30: whatever integers skip and top are, zero and negative ones
\* included, the returned report holds at most max(0, top) file sections,
\* and content is fetched for at most max(0, top) files.
C30_AtMostTopFiles ==
    /\ ReportReturned => Len(HeaderPaths(markdown)) <= Max(0, top)
    /\ Cardinality({calls[i].pos : i \in Indices(calls, IsContentCall)}) <= Max(0, top)

====
